---- MODULE Spec2Model ----
(***************************************************************************)
(* Model of rust_pack (src/src/lib.rs): PackType::try_from, pack and       *)
(* pack_private.  A string is a sequence of characters, a character a      *)
(* one-character name ("a", "3", "[") or "U+00E9" for a two-byte scalar.   *)
(* Rust indices are 0-based, sequences here 1-based: t[i] is t[i + 1].     *)
(***************************************************************************)
EXTENDS Integers, Sequences, FiniteSets, TLC

VARIABLES
    op,               \* the public operation called: "pack" or "try_from"
    template,         \* pack: the template string
    args,             \* pack: the argument sequence (one encoder per argument)
    overflow_checks,  \* build profile: TRUE = debug (arithmetic overflow panics)
    pc,               \* "entry", "scan", "pair", "field", "done", "panic"
    t,                \* pack: the stripped template (binding.as_bytes())
    start,            \* pack: scan index; -1 is the wrapped usize::MAX
    end,              \* pack: end of the next token
    packed_template,  \* pack: descriptors pushed so far (right to left)
    handed,           \* TRUE once pack_private has been entered
    descs,            \* pack_private: the descriptors its iterator was built on
    ti,               \* pack_private: descriptors taken by template.next()
    ai,               \* pack_private: arguments taken by args.next()
    result,           \* pack_private: the accumulated buffer
    ret,              \* pack: the returned Result
    calls,            \* history: the a.inner.pack(p) calls made, in order
    token,            \* try_from: the token parsed
    field             \* try_from: the returned Result

vars == << op, template, args, overflow_checks, pc, t, start, end,
           packed_template, handed, descs, ti, ai, result, ret, calls,
           token, field >>

-----------------------------------------------------------------------------
(* Bounds of the model *)

MaxLen == 3
MaxArgs == 3
MaxSuffix == 2

-----------------------------------------------------------------------------
(* Characters *)

Digits == << "0", "1", "2", "3", "4", "5", "6", "7", "8", "9" >>

DigitSet == { Digits[i] : i \in 1..10 }

AsciiLetters ==
    { "a", "b", "c", "d", "e", "f", "g", "h", "i", "j", "k", "l", "m",
      "n", "o", "p", "q", "r", "s", "t", "u", "v", "w", "x", "y", "z",
      "A", "B", "C", "D", "E", "F", "G", "H", "I", "J", "K", "L", "M",
      "N", "O", "P", "Q", "R", "S", "T", "U", "V", "W", "X", "Y", "Z" }

NonAscii == "U+00E9"

IsAsciiDigit(c) == c \in DigitSet

IsAsciiAlphabetic(c) == c \in AsciiLetters

IsAsciiAlphanumeric(c) == IsAsciiAlphabetic(c) \/ IsAsciiDigit(c)

\* bytes the character takes in UTF-8
Utf8Len(c) == IF c = NonAscii THEN 2 ELSE 1

DigitVal(c) == (CHOOSE i \in 1..10 : Digits[i] = c) - 1

RECURSIVE ByteLen(_)
ByteLen(s) == IF s = << >> THEN 0 ELSE Utf8Len(Head(s)) + ByteLen(Tail(s))

-----------------------------------------------------------------------------
(* Results *)

NoDesc == [kind |-> "None", some |-> FALSE, size |-> 0]

Desc(k, sz) == [kind |-> k, some |-> sz.some, size |-> sz.size]

None == [some |-> FALSE, size |-> 0]

Some(n) == [some |-> TRUE, size |-> n]

FieldOk(d) == [tag |-> "Ok", err |-> "None", val |-> d]

FieldErr(e) == [tag |-> "Err", err |-> e, val |-> NoDesc]

FieldPanic == [tag |-> "Panic", err |-> "None", val |-> NoDesc]

PackOk(bytes) == [tag |-> "Ok", err |-> "None", val |-> bytes]

PackErr(e) == [tag |-> "Err", err |-> e, val |-> << >>]

NoRet == [tag |-> "None", err |-> "None", val |-> << >>]

NoField == [tag |-> "None", err |-> "None", val |-> NoDesc]

PackErrors ==
    { "LeftArgumentIsMissingForTemplate", "RightArgumentIsMissingForTemplate",
      "InvalidFormatLengthArgument", "EmptyFormatCharacter",
      "InvalidFormatCharacter", "EmptyTemplate" }

-----------------------------------------------------------------------------
(* str::parse::<usize>, on a 64-bit target *)

UsizeMaxDigits == << 1, 8, 4, 4, 6, 7, 4, 4, 0, 7, 3, 7, 0, 9, 5, 5, 1, 6, 1, 5 >>

RECURSIVE StripZeros(_)
StripZeros(ds) ==
    IF ds # << >> /\ Head(ds) = 0 THEN StripZeros(Tail(ds)) ELSE ds

LexLeq(a, b) ==
    \/ a = b
    \/ \E i \in 1..Len(a) :
          /\ \A j \in 1..(i - 1) : a[j] = b[j]
          /\ a[i] < b[i]

FitsUsize(ds) ==
    LET sig == StripZeros(ds)
    IN  \/ Len(sig) < Len(UsizeMaxDigits)
        \/ Len(sig) = Len(UsizeMaxDigits) /\ LexLeq(sig, UsizeMaxDigits)

RECURSIVE DecVal(_, _)
DecVal(ds, acc) ==
    IF ds = << >> THEN acc ELSE DecVal(Tail(ds), acc * 10 + Head(ds))

\* [ok, val]: an optional leading "+", then one or more digits, no overflow
ParseUsize(s) ==
    LET body == IF s # << >> /\ Head(s) = "+" THEN Tail(s) ELSE s
        ds == [i \in 1..Len(body) |-> DigitVal(body[i])]
    IN  IF body = << >> \/ \E i \in 1..Len(body) : ~IsAsciiDigit(body[i])
        THEN [ok |-> FALSE, val |-> 0]
        ELSE IF ~FitsUsize(ds)
        THEN [ok |-> FALSE, val |-> 0]
        ELSE [ok |-> TRUE, val |-> DecVal(ds, 0)]

-----------------------------------------------------------------------------
(* PackType and PackType::try_from *)

TagKind ==
    [ a |-> "StringNullPadded", A |-> "AsciiNullPadded", Z |-> "AscizNullPadded",
      c |-> "SignedChar", C |-> "UnsignedChar",
      s |-> "SignedShort", S |-> "UnsignedShort",
      l |-> "SignedLong", L |-> "UnsignedLong",
      q |-> "SignedQuad", Q |-> "UnsignedQuad",
      n |-> "UnsignedShortBE", N |-> "UnsignedLongBE",
      v |-> "UnsignedShortLE", V |-> "UnsignedLongLE",
      x |-> "NullByte" ]

Tags == DOMAIN TagKind

Kinds ==
    << "StringNullPadded", "AsciiNullPadded", "AscizNullPadded", "SignedChar",
       "UnsignedChar", "SignedShort", "UnsignedShort", "SignedLong",
       "UnsignedLong", "SignedQuad", "UnsignedQuad", "UnsignedShortBE",
       "UnsignedLongBE", "UnsignedShortLE", "UnsignedLongLE", "NullByte" >>

\* lines 53-61: the modifier; value.len() counts bytes and value[1..] panics
\* unless byte 1 starts a character
LengthArgument(value) ==
    IF ByteLen(value) = 1 THEN [tag |-> "Ok", size |-> None]
    ELSE IF Utf8Len(Head(value)) # 1 THEN [tag |-> "Panic", size |-> None]
    ELSE LET s == ParseUsize(Tail(value))
         IN  IF s.ok THEN [tag |-> "Ok", size |-> Some(s.val)]
             ELSE [tag |-> "Err", size |-> None]

TryFrom(value) ==
    IF value = << >> THEN FieldErr("EmptyFormatCharacter")
    ELSE LET size == LengthArgument(value)
         IN  IF size.tag = "Panic" THEN FieldPanic
             ELSE IF size.tag = "Err"
             THEN FieldErr("InvalidFormatLengthArgument")
             ELSE IF Head(value) \in Tags
             THEN FieldOk(Desc(TagKind[Head(value)], size.size))
             ELSE FieldErr("InvalidFormatCharacter")

-----------------------------------------------------------------------------
(* Packable::pack: the encoders an argument may carry *)

KindCode(k) == CHOOSE i \in 1..Len(Kinds) : Kinds[i] = k

\* "u16" is the implementation of tests::test_pack; "echo" renders the
\* descriptor it was given; "fail" rejects every descriptor
Encoders == { "u16", "echo", "fail" }

Encode(a, p) ==
    IF a = "u16"
    THEN IF p = Desc("StringNullPadded", Some(10)) THEN PackOk(<< 0, 10 >>)
         ELSE IF p = Desc("UnsignedShort", Some(3)) THEN PackOk(<< 33, 3 >>)
         ELSE IF p = Desc("SignedShort", None) THEN PackOk(<< 44, 44 >>)
         ELSE PackErr("InvalidFormatCharacter")
    ELSE IF a = "echo"
    THEN PackOk(<< KindCode(p.kind) >>
                \o (IF p.some THEN << p.size % 256 >> ELSE << >>))
    ELSE PackErr("InvalidFormatLengthArgument")

-----------------------------------------------------------------------------
(* pack: the tokenizer *)

RECURSIVE Strip(_)
Strip(s) ==
    IF s = << >> THEN << >>
    ELSE IF IsAsciiAlphanumeric(Head(s)) THEN << Head(s) >> \o Strip(Tail(s))
    ELSE Strip(Tail(s))

\* the descriptors handed over as they were pushed
RevForgotten(s) == s

RECURSIVE Rev(_)
Rev(s) == IF s = << >> THEN << >> ELSE Append(Rev(Tail(s)), Head(s))

\* t[i] with Rust's bounds check
InBounds(s, i) == 0 <= i /\ i < Len(s)

\* PackEntry without the test of line 146
PackEntryNoEmptyCheck(tpl, oc) ==
    LET b == Strip(tpl)
    IN  IF Len(b) = 0 /\ oc
        THEN [pc |-> "panic", t |-> b, start |-> 0, end |-> 0, ret |-> NoRet]
        ELSE [pc |-> "scan", t |-> b, start |-> Len(b) - 1, end |-> Len(b),
              ret |-> NoRet]

\* lines 146-153: [pc, t, start, end, ret]
PackEntry(tpl, oc) ==
    LET b == Strip(tpl)
    IN  IF tpl = << >>
        THEN [pc |-> "done", t |-> << >>, start |-> 0, end |-> 0,
              ret |-> PackErr("EmptyTemplate")]
        ELSE IF Len(b) = 0 /\ oc
        THEN [pc |-> "panic", t |-> b, start |-> 0, end |-> 0, ret |-> NoRet]
        ELSE [pc |-> "scan", t |-> b, start |-> Len(b) - 1, end |-> Len(b),
              ret |-> NoRet]

\* ScanIter with a slip v: "orphan" takes the characters left at index 0 for
\* a token, "skipbad" drops a token that does not parse
ScanIterVariant(s, st, en, packed, v) ==
    IF ~InBounds(s, st)
    THEN [pc |-> "panic", start |-> st, end |-> en, packed |-> packed,
          ret |-> NoRet]
    ELSE LET letter == \/ IsAsciiAlphabetic(s[st + 1])
                       \/ v = "orphan" /\ st = 0
             f == TryFrom(SubSeq(s, st + 1, en))
             bad == letter /\ f.tag = "Err"
         IN  IF letter /\ f.tag = "Panic"
             THEN [pc |-> "panic", start |-> st, end |-> en,
                   packed |-> packed, ret |-> NoRet]
             ELSE IF bad /\ v # "skipbad"
             THEN [pc |-> "done", start |-> st, end |-> en,
                   packed |-> packed, ret |-> PackErr(f.err)]
             ELSE LET pushed == IF letter /\ ~bad THEN Append(packed, f.val)
                                ELSE packed
                      en2 == IF letter THEN st ELSE en
                  IN  IF st = 0
                      THEN [pc |-> "pair", start |-> st, end |-> en2,
                            packed |-> pushed, ret |-> NoRet]
                      ELSE [pc |-> "scan", start |-> st - 1, end |-> en2,
                            packed |-> pushed, ret |-> NoRet]

ScanIterOrphanDigits(s, st, en, packed) ==
    ScanIterVariant(s, st, en, packed, "orphan")

ScanIterSkipBad(s, st, en, packed) ==
    ScanIterVariant(s, st, en, packed, "skipbad")

\* lines 155-163, one iteration of the loop: [pc, start, end, packed, ret]
ScanIter(s, st, en, packed) ==
    IF ~InBounds(s, st)
    THEN [pc |-> "panic", start |-> st, end |-> en, packed |-> packed,
          ret |-> NoRet]
    ELSE LET letter == IsAsciiAlphabetic(s[st + 1])
             f == TryFrom(SubSeq(s, st + 1, en))
         IN  IF letter /\ f.tag = "Panic"
             THEN [pc |-> "panic", start |-> st, end |-> en,
                   packed |-> packed, ret |-> NoRet]
             ELSE IF letter /\ f.tag = "Err"
             THEN [pc |-> "done", start |-> st, end |-> en,
                   packed |-> packed, ret |-> PackErr(f.err)]
             ELSE LET pushed == IF letter THEN Append(packed, f.val)
                                ELSE packed
                      en2 == IF letter THEN st ELSE en
                  IN  IF st = 0
                      THEN [pc |-> "pair", start |-> st, end |-> en2,
                            packed |-> pushed, ret |-> NoRet]
                      ELSE [pc |-> "scan", start |-> st - 1, end |-> en2,
                            packed |-> pushed, ret |-> NoRet]

\* lines 154-164, the loop run to its exit
RECURSIVE ScanLoop(_, _, _, _)
ScanLoop(s, st, en, packed) ==
    LET n == ScanIter(s, st, en, packed)
    IN  IF n.pc = "scan" THEN ScanLoop(s, n.start, n.end, n.packed) ELSE n

-----------------------------------------------------------------------------
(* pack_private: the pairing loop *)

\* PairIter with a slip v: "swap" exchanges the two arity errors, "ignore"
\* goes on after a failed encode, "peek" leaves both cursors where they are
\* after an encode, "prepend" puts the new bytes in front of the buffer
PairIterVariant(ds, as, i, j, res, v) ==
    LET packaging == i < Len(ds)
        argument == j < Len(as)
        i2 == IF packaging THEN i + 1 ELSE i
        j2 == IF argument THEN j + 1 ELSE j
        left == IF v = "swap" THEN "RightArgumentIsMissingForTemplate"
                ELSE "LeftArgumentIsMissingForTemplate"
        right == IF v = "swap" THEN "LeftArgumentIsMissingForTemplate"
                 ELSE "RightArgumentIsMissingForTemplate"
    IN  IF packaging /\ argument
        THEN LET data == Encode(as[j2], ds[i2])
                 call == << [d |-> i2, a |-> j2, out |-> data] >>
                 i3 == IF v = "peek" THEN i ELSE i2
                 j3 == IF v = "peek" THEN j ELSE j2
             IN  IF data.tag = "Ok" \/ v = "ignore"
                 THEN [pc |-> "pair", ti |-> i3, ai |-> j3,
                       result |-> IF v = "prepend" THEN data.val \o res
                                  ELSE res \o data.val,
                       ret |-> NoRet, call |-> call]
                 ELSE [pc |-> "done", ti |-> i3, ai |-> j3, result |-> res,
                       ret |-> PackErr(data.err), call |-> call]
        ELSE IF argument
        THEN [pc |-> "done", ti |-> i2, ai |-> j2, result |-> res,
              ret |-> PackErr(left), call |-> << >>]
        ELSE IF packaging
        THEN [pc |-> "done", ti |-> i2, ai |-> j2, result |-> res,
              ret |-> PackErr(right), call |-> << >>]
        ELSE [pc |-> "done", ti |-> i2, ai |-> j2, result |-> res,
              ret |-> PackOk(res), call |-> << >>]

PairIterSwapped(ds, as, i, j, res) == PairIterVariant(ds, as, i, j, res, "swap")

PairIterIgnoreErr(ds, as, i, j, res) ==
    PairIterVariant(ds, as, i, j, res, "ignore")

PairIterPeek(ds, as, i, j, res) == PairIterVariant(ds, as, i, j, res, "peek")

PairIterPrepend(ds, as, i, j, res) ==
    PairIterVariant(ds, as, i, j, res, "prepend")

\* lines 173-193, one iteration: [pc, ti, ai, result, ret, call]
PairIter(ds, as, i, j, res) ==
    LET packaging == i < Len(ds)
        argument == j < Len(as)
        i2 == IF packaging THEN i + 1 ELSE i
        j2 == IF argument THEN j + 1 ELSE j
    IN  IF packaging /\ argument
        THEN LET data == Encode(as[j2], ds[i2])
                 call == << [d |-> i2, a |-> j2, out |-> data] >>
             IN  IF data.tag = "Ok"
                 THEN [pc |-> "pair", ti |-> i2, ai |-> j2,
                       result |-> res \o data.val, ret |-> NoRet,
                       call |-> call]
                 ELSE [pc |-> "done", ti |-> i2, ai |-> j2, result |-> res,
                       ret |-> PackErr(data.err), call |-> call]
        ELSE IF argument
        THEN [pc |-> "done", ti |-> i2, ai |-> j2, result |-> res,
              ret |-> PackErr("LeftArgumentIsMissingForTemplate"),
              call |-> << >>]
        ELSE IF packaging
        THEN [pc |-> "done", ti |-> i2, ai |-> j2, result |-> res,
              ret |-> PackErr("RightArgumentIsMissingForTemplate"),
              call |-> << >>]
        ELSE [pc |-> "done", ti |-> i2, ai |-> j2, result |-> res,
              ret |-> PackOk(res), call |-> << >>]

\* lines 171-194, the loop run to its return
RECURSIVE PackPrivate(_, _, _, _, _)
PackPrivate(ds, as, i, j, res) ==
    LET n == PairIter(ds, as, i, j, res)
    IN  IF n.pc = "pair" THEN PackPrivate(ds, as, n.ti, n.ai, n.result)
        ELSE n.ret

\* lines 142-166, the whole call: the returned Result, or "Panic"
Pack(tpl, as, oc) ==
    LET e == PackEntry(tpl, oc)
        s == ScanLoop(e.t, e.start, e.end, << >>)
    IN  IF e.pc = "done" THEN e.ret
        ELSE IF e.pc = "panic" \/ s.pc = "panic"
        THEN [tag |-> "Panic", err |-> "None", val |-> << >>]
        ELSE IF s.pc = "done" THEN s.ret
        ELSE PackPrivate(Rev(s.packed), as, 0, 0, << >>)

-----------------------------------------------------------------------------
(* Inputs *)

SeqsUpTo(S, n) == UNION { [1..k -> S] : k \in 0..n }

TemplateChars == { "a", "S", "b", "3", "0", "[" }

ExampleTemplate == << "a", "[", "1", "0", "]", "S", "3", "s" >>

Nines(n) == [i \in 1..n |-> "9"]

\* usize::MAX + 1
OverMax == << "1", "8", "4", "4", "6", "7", "4", "4", "0", "7", "3", "7",
              "0", "9", "5", "5", "1", "6", "1", "6" >>

LongTemplates ==
    { ExampleTemplate,
      << "a" >> \o OverMax,
      << "S", "3", "a" >> \o Nines(Len(OverMax) + 1),
      << "b" >> \o Nines(Len(OverMax) + 1) \o << "S" >> }

Templates == SeqsUpTo(TemplateChars, MaxLen) \cup LongTemplates

ArgSeqs == SeqsUpTo(Encoders, MaxArgs)

TokenHeads == { "a", "S", "x", "b", "3", "[", "+", NonAscii }

TokenTails ==
    SeqsUpTo({ "1", "0", "x", "+" }, MaxSuffix)
        \cup { OverMax, Nines(Len(OverMax) + 1) }

Tokens == { << >> } \cup { << h >> \o tl : h \in TokenHeads, tl \in TokenTails }

-----------------------------------------------------------------------------
(* The state machine *)

PackInit ==
    /\ op = "pack"
    /\ template \in Templates
    /\ args \in ArgSeqs
    /\ overflow_checks \in BOOLEAN
    /\ pc = "entry"
    /\ token = << >>

FieldInit ==
    /\ op = "try_from"
    /\ template = << >>
    /\ args = << >>
    /\ overflow_checks = TRUE
    /\ pc = "field"
    /\ token \in Tokens

Init ==
    /\ PackInit \/ FieldInit
    /\ t = << >>
    /\ start = 0
    /\ end = 0
    /\ packed_template = << >>
    /\ handed = FALSE
    /\ descs = << >>
    /\ ti = 0
    /\ ai = 0
    /\ result = << >>
    /\ ret = NoRet
    /\ calls = << >>
    /\ field = NoField

\* pack, lines 146-153
Enter ==
    /\ pc = "entry"
    /\ LET n == PackEntry(template, overflow_checks)
       IN  /\ pc' = n.pc
           /\ t' = n.t
           /\ start' = n.start
           /\ end' = n.end
           /\ ret' = n.ret
    /\ UNCHANGED << op, template, args, overflow_checks, packed_template,
                    handed, descs, ti, ai, result, calls, token, field >>

\* pack, lines 155-165: one iteration of the scan; on the break the reversed
\* descriptors are handed to pack_private (line 171)
Scan ==
    /\ pc = "scan"
    /\ LET n == ScanIter(t, start, end, packed_template)
       IN  /\ pc' = n.pc
           /\ start' = n.start
           /\ end' = n.end
           /\ packed_template' = n.packed
           /\ ret' = n.ret
           /\ handed' = (n.pc = "pair")
           /\ descs' = IF n.pc = "pair" THEN Rev(n.packed) ELSE descs
    /\ UNCHANGED << op, template, args, overflow_checks, t, ti, ai, result,
                    calls, token, field >>

\* pack_private, lines 173-193: one iteration of the pairing loop
Pair ==
    /\ pc = "pair"
    /\ LET n == PairIter(descs, args, ti, ai, result)
       IN  /\ pc' = n.pc
           /\ ti' = n.ti
           /\ ai' = n.ai
           /\ result' = n.result
           /\ ret' = n.ret
           /\ calls' = calls \o n.call
    /\ UNCHANGED << op, template, args, overflow_checks, t, start, end,
                    packed_template, handed, descs, token, field >>

\* (Some(p), Some(a)), lines 176-183
PairEncode == ti < Len(descs) /\ ai < Len(args) /\ Pair

\* (None, Some(_)), lines 184-186
PairLeftMissing == ti >= Len(descs) /\ ai < Len(args) /\ Pair

\* (Some(_), None), lines 187-189
PairRightMissing == ti < Len(descs) /\ ai >= Len(args) /\ Pair

\* (None, None), lines 190-192
PairReturn == ti >= Len(descs) /\ ai >= Len(args) /\ Pair

\* PackType::try_from called on its own
ParseField ==
    /\ pc = "field"
    /\ field' = TryFrom(token)
    /\ pc' = IF TryFrom(token).tag = "Panic" THEN "panic" ELSE "done"
    /\ UNCHANGED << op, template, args, overflow_checks, t, start, end,
                    packed_template, handed, descs, ti, ai, result, ret,
                    calls, token >>

Next ==
    \/ Enter
    \/ Scan
    \/ PairEncode
    \/ PairLeftMissing
    \/ PairRightMissing
    \/ PairReturn
    \/ ParseField

Spec == Init /\ [][Next]_vars

-----------------------------------------------------------------------------
(* What the claims speak of, read off the stripped template left to right *)

Min(a, b) == IF a <= b THEN a ELSE b

LetterPositions(s) == { p \in 1..Len(s) : IsAsciiAlphabetic(s[p]) }

\* the position of the k-th letter of s
NthLetter(s, k) ==
    CHOOSE p \in LetterPositions(s) :
        Cardinality({ q \in LetterPositions(s) : q <= p }) = k

\* the digits that stand right after position p
DigitRun(s, p) ==
    LET last == CHOOSE e \in p..Len(s) :
                    /\ \A k \in (p + 1)..e : IsAsciiDigit(s[k])
                    /\ e = Len(s) \/ ~IsAsciiDigit(s[e + 1])
    IN  SubSeq(s, p + 1, last)

RECURSIVE Pow10(_)
Pow10(n) == IF n = 0 THEN 1 ELSE 10 * Pow10(n - 1)

RECURSIVE RunValue(_)
RunValue(run) ==
    IF run = << >> THEN 0
    ELSE DigitVal(Head(run)) * Pow10(Len(run) - 1) + RunValue(Tail(run))

RunFits(run) == FitsUsize([i \in 1..Len(run) |-> DigitVal(run[i])])

ExpectedDesc(s, p) ==
    [kind |-> TagKind[s[p]],
     some |-> DigitRun(s, p) # << >>,
     size |-> RunValue(DigitRun(s, p))]

ExpectedDescs(s) ==
    [k \in 1..Cardinality(LetterPositions(s)) |-> ExpectedDesc(s, NthLetter(s, k))]

BadToken(s, p) == s[p] \notin Tags \/ ~RunFits(DigitRun(s, p))

BadPositions(s) == { p \in LetterPositions(s) : BadToken(s, p) }

TokenError(s, p) ==
    IF ~RunFits(DigitRun(s, p)) THEN "InvalidFormatLengthArgument"
    ELSE "InvalidFormatCharacter"

RECURSIVE DropLeadingDigits(_)
DropLeadingDigits(s) ==
    IF s # << >> /\ IsAsciiDigit(Head(s)) THEN DropLeadingDigits(Tail(s))
    ELSE s

RECURSIVE ConcatPairs(_, _, _)
ConcatPairs(ds, as, k) ==
    IF k = 0 THEN << >>
    ELSE ConcatPairs(ds, as, k - 1) \o Encode(as[k], ds[k]).val

EncodesSucceed(ds, as, k) == \A i \in 1..k : Encode(as[i], ds[i]).tag = "Ok"

Returned == op = "pack" /\ pc = "done"

-----------------------------------------------------------------------------
(* The claims *)

\* C1 as stated: once the template has parsed to m descriptors and the call
\* has returned with n arguments given, the result is Ok only if m = n, it is
\* RightArgumentIsMissingForTemplate whenever m > n and
\* LeftArgumentIsMissingForTemplate whenever n > m, whatever the encoders
\* returned.
C1_ArityWhateverEncodersDo ==
    (Returned /\ handed) =>
        /\ ret.tag = "Ok" => Len(descs) = Len(args)
        /\ Len(descs) > Len(args) =>
               ret = PackErr("RightArgumentIsMissingForTemplate")
        /\ Len(args) > Len(descs) =>
               ret = PackErr("LeftArgumentIsMissingForTemplate")

\* C1 amended: the result is Ok only if m = n; when the encode calls of the
\* first min(m, n) pairs all succeed, it is RightArgumentIsMissingForTemplate
\* for m > n and LeftArgumentIsMissingForTemplate for n > m.
C1_ArityWhenEncodesSucceed ==
    (Returned /\ handed) =>
        LET m == Len(descs)
            n == Len(args)
            fine == EncodesSucceed(descs, args, Min(m, n))
        IN  /\ ret.tag = "Ok" => m = n
            /\ (fine /\ m > n) =>
                   ret = PackErr("RightArgumentIsMissingForTemplate")
            /\ (fine /\ n > m) =>
                   ret = PackErr("LeftArgumentIsMissingForTemplate")

C1_Witness ==
    /\ Returned
    /\ handed
    /\ Len(args) >= 1
    /\ Len(descs) > Len(args)
    /\ EncodesSucceed(descs, args, Len(args))
    /\ ret = PackErr("RightArgumentIsMissingForTemplate")

\* C2: while pairing, the buffer is the concatenation, in pair order, of the
\* encode results of the pairs processed so far, and a returned Ok buffer is
\* the concatenation of the encode results of all pairs 1..m.
C2_BufferIsOrderedConcatenation ==
    (op = "pack" /\ handed) =>
        /\ pc = "pair" =>
               /\ ti = ai
               /\ result = ConcatPairs(descs, args, ti)
        /\ (pc = "done" /\ ret.tag = "Ok") =>
               /\ Len(args) = Len(descs)
               /\ ret.val = ConcatPairs(descs, args, Len(descs))

C2_Witness ==
    /\ Returned
    /\ template = ExampleTemplate
    /\ args = << "u16", "u16", "u16" >>
    /\ ret = PackOk(<< 0, 10, 33, 3, 44, 44 >>)

\* C3: the descriptors handed to the pairing loop are one per letter of the
\* stripped template, in reading order, each with the kind of its letter and
\* the decimal value of the digits right after it (None when there are none).
C3_DescriptorsInReadingOrder ==
    (op = "pack" /\ handed) => descs = ExpectedDescs(t)

C3_Witness ==
    /\ op = "pack"
    /\ handed
    /\ template = ExampleTemplate
    /\ descs = << Desc("StringNullPadded", Some(10)),
                  Desc("UnsignedShort", Some(3)),
                  Desc("SignedShort", None) >>

\* C4 as stated: try_from on a token whose first character is none of the 16
\* tags ends with Err(InvalidFormatCharacter), whatever follows the character.
C4_UnknownTagAlwaysInvalidFormatCharacter ==
    (op = "try_from" /\ pc \in { "done", "panic" }
        /\ token # << >> /\ Head(token) \notin Tags) =>
        field = FieldErr("InvalidFormatCharacter")

\* C5 as stated: pack never panics, its scan index stays inside the stripped
\* string, and what it returns is a buffer or one of the six PackError kinds.
C5_PackAlwaysReturnsAResult ==
    op = "pack" =>
        /\ pc # "panic"
        /\ pc = "scan" => InBounds(t, start)
        /\ pc = "done" =>
               \/ ret.tag = "Ok"
               \/ ret.tag = "Err" /\ ret.err \in PackErrors

\* C6: a failed encode call is the last one made, the call has returned, and
\* what it returned is exactly that error with no buffer.
C6_EncodeFailureShortCircuits ==
    op = "pack" =>
        \A k \in 1..Len(calls) :
            calls[k].out.tag = "Err" =>
                /\ k = Len(calls)
                /\ pc = "done"
                /\ ret = PackErr(calls[k].out.err)
                /\ ret.val = << >>

C6_Witness ==
    /\ Returned
    /\ Len(descs) = 3
    /\ Len(args) = 3
    /\ Len(calls) = 2
    /\ calls[2].out.tag = "Err"
    /\ result # << >>

\* C7: the k-th encode call pairs descriptor k with argument k, so no
\* descriptor and no argument is used twice, and there are never more calls
\* than min(m, n), whatever the modifiers of the descriptors.
C7_PairingIsPositional ==
    op = "pack" =>
        /\ Len(calls) <= Min(Len(descs), Len(args))
        /\ \A k \in 1..Len(calls) :
               /\ calls[k].d = k
               /\ calls[k].a = k
               /\ calls[k].out = Encode(args[k], descs[k])

C7_Witness ==
    /\ Returned
    /\ ret.tag = "Ok"
    /\ Len(descs) = 2
    /\ descs[1].some
    /\ descs[1].size = 3
    /\ Len(args) = 2
    /\ Len(calls) = 2

\* C8: pack with the empty template returns Err(EmptyTemplate) at once, for
\* every argument sequence.
C8_EmptyTemplate ==
    (op = "pack" /\ template = << >> /\ pc # "entry") =>
        /\ pc = "done"
        /\ ret = PackErr("EmptyTemplate")
        /\ calls = << >>
        /\ ai = 0

C8_Witness ==
    /\ Returned
    /\ template = << >>
    /\ Len(args) = MaxArgs
    /\ ret = PackErr("EmptyTemplate")

\* C9: when the stripped template is digits followed by a rest that starts
\* with a letter, the scan ends as it does on the rest alone: the same
\* descriptors are handed over and the call returns what pack returns for
\* the rest.
C9_LeadingDigitsDropped ==
    (op = "pack" /\ t # << >> /\ IsAsciiDigit(Head(t))
        /\ LetterPositions(t) # { }) =>
        LET rest == DropLeadingDigits(t)
            alone == ScanLoop(rest, Len(rest) - 1, Len(rest), << >>)
        IN  /\ pc # "panic"
            /\ handed => (alone.pc = "pair" /\ descs = Rev(alone.packed))
            /\ pc = "done" => ret = Pack(rest, args, overflow_checks)

C9_Witness ==
    /\ Returned
    /\ t = << "3", "0", "a" >>
    /\ args = << "echo" >>
    /\ ret = PackOk(<< 1 >>)

\* C10: no argument is pulled and no encode call is made while the template
\* is scanned; when a token of the template does not parse, pack_private is
\* never entered and the call returns the error of the rightmost such token.
C10_TemplateParsedBeforePairing ==
    op = "pack" =>
        /\ pc \in { "entry", "scan" } => (calls = << >> /\ ai = 0 /\ ~handed)
        /\ BadPositions(Strip(template)) # { } =>
               /\ ~handed
               /\ pc # "pair"
               /\ calls = << >>
               /\ ai = 0
               /\ pc = "done" =>
                      LET s == Strip(template)
                          p == CHOOSE q \in BadPositions(s) :
                                   \A r \in BadPositions(s) : r <= q
                      IN  ret = PackErr(TokenError(s, p))

C10_Witness ==
    /\ Returned
    /\ t = << "a", "b", "S" >>
    /\ Len(args) = 3
    /\ Len(packed_template) = 1
    /\ ret = PackErr("InvalidFormatCharacter")
    /\ calls = << >>

====
